---- MODULE Spec2Model ----
(***************************************************************************)
(* The shared process worker: SharedProcessWorkerMain (the registry and    *)
(* the control protocol), SharedProcessWorkerProcess (one forked child and *)
(* its relay) and hash (the configuration fingerprint).                    *)
(*                                                                         *)
(* The worker is a single-threaded reactor: every handler runs to          *)
(* completion, so each handler is one action.  The effects a handler       *)
(* performs, in program order, are kept in `effects`.                      *)
(***************************************************************************)
EXTENDS Integers, Sequences, FiniteSets, TLC

\* Controllers (SharedProcessWorkerProcess objects) constructed in one run.
MaxProcesses == 2

VARIABLES
    mapConfigurationToProcess,  \* Map<number, SharedProcessWorkerProcess>: key -> index in processes
    processes,                  \* every SharedProcessWorkerProcess constructed so far
    closed,                     \* close() of the worker scope has been called
    message,                    \* the last inbound control message, as sent and as left by its handler
    event,                      \* the event the last handler ran for
    effects,                    \* what the last handler did, in program order
    thrown                      \* the last handler let an exception escape

vars == <<mapConfigurationToProcess, processes, closed, message, event, effects, thrown>>

-----------------------------------------------------------------------------
(* Configurations *)

ModuleIds == {"m1", "m2"}
ProcessTypes == {"t1"}
WindowIds == {1}
Channels == {"c"}
Nonces == {"a", "b"}

\* ISharedProcessWorkerConfiguration
Configurations ==
    [process : [moduleId : ModuleIds, type : ProcessTypes],
     reply : [windowId : WindowIds, channel : Channels, nonce : Nonces \cup {""}]]

\* The configurations the owner sends: every request carries a nonce.
SentConfigurations == {c \in Configurations : c.reply.nonce # ""}

\* The UTF-16 code units of the strings in use (String.charCodeAt).
charCodes(s) ==
    CASE
         s = "" -> <<>>
      [] s = "a" -> <<97>>
      [] s = "b" -> <<98>>
      [] s = "c" -> <<99>>
      [] s = "m1" -> <<109, 49>>
      [] s = "m2" -> <<109, 50>>
      [] s = "t1" -> <<116, 49>>
      [] s = "process" -> <<112, 114, 111, 99, 101, 115, 115>>
      [] s = "reply" -> <<114, 101, 112, 108, 121>>
      [] s = "moduleId" -> <<109, 111, 100, 117, 108, 101, 73, 100>>
      [] s = "type" -> <<116, 121, 112, 101>>
      [] s = "channel" -> <<99, 104, 97, 110, 110, 101, 108>>
      [] s = "nonce" -> <<110, 111, 110, 99, 101>>
      [] s = "windowId" -> <<119, 105, 110, 100, 111, 119, 73, 100>>

\* (h * 31 + val) | 0: the sum wrapped to a signed 32 bit integer, computed
\* on 16 bit halves.
numberHash(val, initialHashVal) ==
    LET lo == initialHashVal % 65536
        hi == ((initialHashVal - lo) \div 65536) % 65536
        vlo == val % 65536
        vhi == ((val - vlo) \div 65536) % 65536
        sumlo == lo * 31 + vlo
        rlo == sumlo % 65536
        rhi == (hi * 31 + vhi + sumlo \div 65536) % 65536
    IN  IF rhi >= 32768 THEN (rhi - 65536) * 65536 + rlo ELSE rhi * 65536 + rlo

\* The numbers in `codes` hashed one after the other, starting from hashVal.
hashCodes[codes \in Seq(Int), hashVal \in Int] ==
    IF codes = <<>> THEN hashVal
    ELSE hashCodes[Tail(codes), numberHash(Head(codes), hashVal)]

\* stringHash(s, hashVal): its seed, then every code unit of s
stringCodes(s) == <<149417>> \o charCodes(s)

\* objectHash(obj, hashVal): its seed, then its keys, sorted, each with its value
objectSeed == <<181387>>

\* hash(obj) of vs/base/common/hash on a configuration.
hashObject(obj) ==
    hashCodes[
        objectSeed
        \o stringCodes("process") \o objectSeed
            \o stringCodes("moduleId") \o stringCodes(obj.process.moduleId)
            \o stringCodes("type") \o stringCodes(obj.process.type)
        \o stringCodes("reply") \o objectSeed
            \o stringCodes("channel") \o stringCodes(obj.reply.channel)
            \o stringCodes("nonce") \o stringCodes(obj.reply.nonce)
            \o stringCodes("windowId") \o <<obj.reply.windowId>>,
        0]

\* Sequencing: `value` is computed once and handed to what follows.
Then(value, Rest(_)) == CHOOSE result \in {Rest(v) : v \in {value}} : TRUE

\* A seeded fault of hash: the nonce stays in the hash key.
hashKeepNonce(configuration) ==
    Then(configuration, LAMBDA c : [result |-> hashObject(c), configuration |-> c])

\* hash(configuration): the value returned, and the caller's configuration
\* object after the call.  The spread copies one level only, so reply is
\* shared between the copy and the caller's object: clearing the nonce of
\* the copy clears the caller's.
hash(configuration) ==
    Then([configuration EXCEPT !.reply.nonce = ""], LAMBDA configurationCopy :
        [result |-> hashObject(configurationCopy),
         configuration |-> [configuration EXCEPT !.reply = configurationCopy.reply]])

-----------------------------------------------------------------------------
(* Relay payloads and their transport encoding *)

Pad == 64

Buffers == {<<65>>, <<255, 1>>}

RECURSIVE toBase64(_)
\* Buffer.toString('base64'): three bytes to four sextets, padded.
toBase64(bytes) ==
    IF Len(bytes) = 0 THEN <<>>
    ELSE IF Len(bytes) = 1 THEN
        <<bytes[1] \div 4, (bytes[1] % 4) * 16, Pad, Pad>>
    ELSE IF Len(bytes) = 2 THEN
        <<bytes[1] \div 4, (bytes[1] % 4) * 16 + bytes[2] \div 16,
          (bytes[2] % 16) * 4, Pad>>
    ELSE
        <<bytes[1] \div 4, (bytes[1] % 4) * 16 + bytes[2] \div 16,
          (bytes[2] % 16) * 4 + bytes[3] \div 64, bytes[3] % 64>>
        \o toBase64(SubSeq(bytes, 4, Len(bytes)))

RECURSIVE fromBase64(_)
\* Buffer.from(text, 'base64')
fromBase64(text) ==
    IF Len(text) < 4 THEN <<>>
    ELSE
        LET b1 == text[1] * 4 + text[2] \div 16
            b2 == (text[2] % 16) * 16 + text[3] \div 4
            b3 == (text[3] % 4) * 64 + text[4]
        IN  IF text[3] = Pad THEN <<b1>>
            ELSE IF text[4] = Pad THEN <<b1, b2>>
            ELSE <<b1, b2, b3>> \o fromBase64(SubSeq(text, 5, Len(text)))

\* What a child emits on its message channel.
ConsoleLog == [type |-> "__$console", text |-> <<>>]
ChildMessages == {ConsoleLog} \cup {[type |-> "data", text |-> toBase64(b)] : b \in Buffers}

isRemoteConsoleLog(msg) == msg.type = "__$console"

-----------------------------------------------------------------------------
(* Control protocol *)

\* SharedProcessWorkerMessages
RequestPort == "vscode:shared-process-worker->shared-process=requestPort"
ReceivePort == "vscode:shared-process->shared-process-worker=receivePort"
WorkerReady == "vscode:shared-process-worker->shared-process=ready"
WorkerTerminate == "vscode:shared-process->shared-process-worker=terminate"
WorkerTrace == "vscode:shared-process-worker->shared-process=trace"
WorkerWarn == "vscode:shared-process-worker->shared-process=warn"
WorkerError == "vscode:shared-process-worker->shared-process=error"

\* The ids an inbound message may carry; RequestPort stands for any id the
\* switch of notifyMessage has no case for.
InboundIds == {ReceivePort, WorkerTerminate, RequestPort}

ExitCodes == {"0", "1", "null"}
Signals == {"null", "SIGTERM", "SIGKILL"}

\* What 'exit' reports: the exit code of a child that exited by itself, or
\* the signal that terminated it; exactly one of the two is not null.
Exits == {x \in ExitCodes \X Signals : (x[1] = "null") # (x[2] = "null")}

\* One effect of a handler.  proc is the controller concerned (0: none).
Effect(kind, id, text, proc, code, signal, data) ==
    [kind |-> kind, id |-> id, text |-> text, proc |-> proc, code |-> code, signal |-> signal,
     data |-> data]

\* postMessage({ id, message })
postMessage(id, text) == Effect("postMessage", id, text, 0, "", "", <<>>)

Did(kind, proc) == Effect(kind, "", "", proc, "", "", <<>>)

\* A payload handed to the port or to the child of controller proc.
Relay(kind, proc, data) == Effect(kind, "", "", proc, "", "", data)

\* namespace Logger
LoggerError(text) == postMessage(WorkerError, text)
LoggerWarn(text) == postMessage(WorkerWarn, text)
LoggerTrace(text) == postMessage(WorkerTrace, text)

\* The state a handler works on: the registry, the controllers, the worker
\* scope, the configuration object of the message being handled, and the
\* exception in flight, if any.
World ==
    [map |-> mapConfigurationToProcess, processes |-> processes, closed |-> closed,
     configuration |-> message.configuration, effects |-> <<>>, thrown |-> FALSE]

Emit(w, e) == [w EXCEPT !.effects = Append(@, e)]

-----------------------------------------------------------------------------
(* SharedProcessWorkerProcess *)

\* new SharedProcessWorkerProcess(port, configuration, environment)
NewProcess(configuration) ==
    [configuration |-> configuration, child |-> "undefined", isDisposed |-> FALSE,
     connected |-> FALSE, killed |-> FALSE, exited |-> FALSE]

\* A seeded fault of dispose: the child is sent kill before the flag is set,
\* and a controller that is disposed already is reopened by a further call.
disposeToggle(w, p) ==
    Then(IF w.processes[p].child = "forked"
         THEN Emit([w EXCEPT !.processes[p].killed = TRUE], Did("kill", p))
         ELSE w,
         LAMBDA d1 :
            Emit([d1 EXCEPT !.processes[p].isDisposed = ~w.processes[p].isDisposed],
                 Did("isDisposed", p)))

\* A seeded fault of dispose: the flag is set, the child is not sent kill.
disposeNoKill(w, p) ==
    Emit([w EXCEPT !.processes[p].isDisposed = TRUE], Did("isDisposed", p))

\* dispose(): the flag first, then child?.kill()
dispose(w, p) ==
    Then(Emit([w EXCEPT !.processes[p].isDisposed = TRUE], Did("isDisposed", p)),
         LAMBDA d1 :
            IF d1.processes[p].child = "forked"
            THEN Emit([d1 EXCEPT !.processes[p].killed = TRUE], Did("kill", p))
            ELSE d1)

\* spawn(): fork may throw; the listeners and the relay are bound after it.
spawn(w, p, forkThrows) ==
    Then(Emit(w, LoggerTrace("Forking worker process")),
         LAMBDA s1 :
            IF forkThrows
            THEN [s1 EXCEPT !.thrown = TRUE]
            ELSE Emit([s1 EXCEPT !.processes[p].child = "forked",
                                 !.processes[p].connected = TRUE],
                      Did("fork", p)))

\* A seeded fault of the exit listener: || in place of &&.
onExitEither(w, p, code, signal) ==
    IF w.processes[p].isDisposed THEN w
    ELSE IF code # "0" \/ signal # "SIGTERM"
    THEN Emit(w, Effect("postMessage", WorkerError, "Child process crashed", 0, code, signal, <<>>))
    ELSE w

\* child.on('exit', (code, signal) => ...)
onExit(w, p, code, signal) ==
    IF w.processes[p].isDisposed THEN w
    ELSE IF code # "0" /\ signal # "SIGTERM"
    THEN Emit(w, Effect("postMessage", WorkerError, "Child process crashed", 0, code, signal, <<>>))
    ELSE w

\* A seeded fault of the error listener: the error is fatal to the controller.
onErrorFatal(w, p) == dispose(Emit(w, LoggerWarn("Error from child process")), p)

\* child.on('error', error => Logger.warn(...))
onError(w, p) == Emit(w, LoggerWarn("Error from child process"))

\* A seeded fault of the message listener: the text is posted as it came,
\* not decoded.
onRawMessageNoDecode(w, p, msg) ==
    IF w.processes[p].isDisposed THEN w
    ELSE IF isRemoteConsoleLog(msg) THEN Emit(w, Did("log", p))
    ELSE Emit(w, Relay("port.postMessage", p, msg.text))

\* onRawMessage(msg => ...): child -> port
onRawMessage(w, p, msg) ==
    IF w.processes[p].isDisposed THEN w
    ELSE IF isRemoteConsoleLog(msg) THEN Emit(w, Did("log", p))
    ELSE Emit(w, Relay("port.postMessage", p, fromBase64(msg.text)))

\* A seeded fault of send: the buffer is sent whatever the child's state.
sendAlways(w, p, buffer) ==
    IF w.processes[p].isDisposed THEN w
    ELSE Emit(w, Relay("child.send", p, toBase64(buffer)))

\* send(buffer): port -> child
send(w, p, buffer) ==
    IF w.processes[p].isDisposed THEN w
    ELSE IF w.processes[p].connected
    THEN Emit(w, Relay("child.send", p, toBase64(buffer)))
    ELSE Emit(w, LoggerWarn("Unable to deliver message to disconnected child"))

-----------------------------------------------------------------------------
(* SharedProcessWorkerMain *)

\* this.mapConfigurationToProcess.set(key, value)
MapSet(map, key, value) == [k \in DOMAIN map \cup {key} |-> IF k = key THEN value ELSE map[k]]

\* this.mapConfigurationToProcess.delete(key)
MapDelete(map, key) == [k \in DOMAIN map \ {key} |-> map[k]]

\* The end of terminate once a controller is found: delete(configurationHash); close()
deleteAndClose(w, configurationHash, process) ==
    Emit(Emit([w EXCEPT !.map = MapDelete(w.map, configurationHash), !.closed = TRUE],
              Did("delete", process)),
         Did("close", 0))

\* A seeded fault of terminate: the entry is dropped, the controller is not disposed.
terminateNoDispose(w) ==
    Then(hash(w.configuration), LAMBDA h :
    Then([w EXCEPT !.configuration = h.configuration], LAMBDA t1 :
        IF h.result \in DOMAIN t1.map
        THEN deleteAndClose(Emit(t1, LoggerTrace("Terminating worker process")),
                            h.result, t1.map[h.result])
        ELSE t1))

\* A seeded fault of terminate: the trace is logged also when nothing is registered.
terminateAlwaysTrace(w) ==
    Then(hash(w.configuration), LAMBDA h :
    Then(Emit([w EXCEPT !.configuration = h.configuration],
              LoggerTrace("Terminating worker process")), LAMBDA t1 :
        IF h.result \in DOMAIN t1.map
        THEN Then(dispose(t1, t1.map[h.result]), LAMBDA t2 :
                  deleteAndClose(t2, h.result, t1.map[h.result]))
        ELSE t1))

\* A seeded fault of terminate: the registry is cleared, not just the entry found.
terminateClearsMap(w) ==
    Then(hash(w.configuration), LAMBDA h :
    Then([w EXCEPT !.configuration = h.configuration], LAMBDA t1 :
        IF h.result \in DOMAIN t1.map
        THEN Then(dispose(Emit(t1, LoggerTrace("Terminating worker process")),
                          t1.map[h.result]), LAMBDA t2 :
                  deleteAndClose([t2 EXCEPT !.map = << >>], h.result, t1.map[h.result]))
        ELSE t1))

\* terminate(configuration)
terminate(w) ==
    Then(hash(w.configuration), LAMBDA h :
    Then([w EXCEPT !.configuration = h.configuration], LAMBDA t1 :
        IF h.result \in DOMAIN t1.map
        THEN Then(dispose(Emit(t1, LoggerTrace("Terminating worker process")),
                          t1.map[h.result]), LAMBDA t2 :
                  deleteAndClose(t2, h.result, t1.map[h.result]))
        ELSE t1))

\* onTerminate(configuration)
onTerminate(w) == terminate(w)

\* The catch block of onReceivePort
catch(w) ==
    Emit([w EXCEPT !.thrown = FALSE], LoggerError("Unexpected error forking worker process"))

\* A seeded fault of the end of onReceivePort: WorkerReady is posted before
\* the controller is stored.
readyAndSet(w, process) ==
    Then(hash(w.configuration), LAMBDA h :
        Emit(Emit(Emit([w EXCEPT !.map = MapSet(w.map, h.result, process),
                                 !.configuration = h.configuration],
                       LoggerTrace("Worker is ready")),
                  postMessage(WorkerReady, "")),
             Did("set", process)))

\* The end of onReceivePort: set(hash(configuration), process), then WorkerReady
setAndReady(w, process) ==
    Then(hash(w.configuration), LAMBDA h :
        Emit(Emit(Emit([w EXCEPT !.map = MapSet(w.map, h.result, process),
                                 !.configuration = h.configuration],
                       Did("set", process)),
                  LoggerTrace("Worker is ready")),
             postMessage(WorkerReady, "")))

\* w with a new controller for the configuration of the message
constructed(w) == [w EXCEPT !.processes = Append(@, NewProcess(w.configuration))]

\* A seeded fault of onReceivePort: the controller is registered before it is spawned.
onReceivePortSetFirst(w, forkThrows) ==
    Then(terminate(Emit(w, LoggerTrace("Received the message port and configuration"))),
         LAMBDA r1 :
    Then(hash(r1.configuration), LAMBDA h :
    Then(spawn(Emit([constructed(r1) EXCEPT
                        !.map = MapSet(r1.map, h.result, Len(r1.processes) + 1)],
                    Did("set", Len(r1.processes) + 1)),
               Len(r1.processes) + 1, forkThrows),
         LAMBDA r2 :
            IF r2.thrown THEN catch(r2)
            ELSE Emit(Emit(r2, LoggerTrace("Worker is ready")), postMessage(WorkerReady, "")))))

\* A seeded fault of onReceivePort: the new child is forked before the old one is terminated.
onReceivePortSpawnFirst(w, forkThrows) ==
    Then(Emit(w, LoggerTrace("Received the message port and configuration")), LAMBDA r0 :
    Then(spawn(constructed(r0), Len(r0.processes) + 1, forkThrows), LAMBDA r1 :
        IF r1.thrown THEN catch(r1)
        ELSE Then(terminate(r1), LAMBDA r2 : setAndReady(r2, Len(r2.processes)))))

\* A seeded fault of onReceivePort: the port is requested again after a handoff.
onReceivePortRequestsAgain(w, forkThrows) ==
    Then(terminate(Emit(w, LoggerTrace("Received the message port and configuration"))),
         LAMBDA r1 :
    Then(spawn(constructed(r1), Len(r1.processes) + 1, forkThrows), LAMBDA r2 :
        IF r2.thrown THEN catch(r2)
        ELSE Emit(setAndReady(r2, Len(r2.processes)), postMessage(RequestPort, ""))))

\* onReceivePort(port, configuration, environment)
onReceivePort(w, forkThrows) ==
    Then(terminate(Emit(w, LoggerTrace("Received the message port and configuration"))),
         LAMBDA r1 :
    Then(spawn(constructed(r1), Len(r1.processes) + 1, forkThrows), LAMBDA r2 :
        IF r2.thrown THEN catch(r2)
        ELSE setAndReady(r2, Len(r2.processes))))

\* A seeded fault of notifyMessage: a message of an unknown kind is dropped silently.
notifyMessageSilent(w, id, hasPort, hasEnvironment, forkThrows) ==
    IF id = ReceivePort
    THEN IF hasPort /\ hasEnvironment THEN onReceivePort(w, forkThrows) ELSE w
    ELSE IF id = WorkerTerminate
    THEN onTerminate(w)
    ELSE w

\* notifyMessage(message, transfer)
notifyMessage(w, id, hasPort, hasEnvironment, forkThrows) ==
    IF id = ReceivePort
    THEN IF hasPort /\ hasEnvironment THEN onReceivePort(w, forkThrows) ELSE w
    ELSE IF id = WorkerTerminate
    THEN onTerminate(w)
    ELSE Emit(w, LoggerWarn("Unexpected message"))

-----------------------------------------------------------------------------
(* The state machine *)

NoConfiguration == CHOOSE c \in Configurations : c.reply.nonce = ""

\* What a handler ran for: a control message (with the outcome of the fork it
\* attempted, if any), or an event of the child or the port of controller proc.
Event(kind, proc, code, signal, type, data, forkThrows) ==
    [kind |-> kind, proc |-> proc, code |-> code, signal |-> signal, type |-> type,
     data |-> data, forkThrows |-> forkThrows]

NoEvent == Event("create", 0, "", "", "", <<>>, FALSE)

\* No control message: the last handler ran for an event of a child or a port.
NoMessage ==
    [id |-> "", sent |-> NoConfiguration, configuration |-> NoConfiguration,
     hasPort |-> FALSE, hasEnvironment |-> FALSE]

\* create(): new SharedProcessWorkerMain(), whose constructor runs init().
Init ==
    /\ mapConfigurationToProcess = << >>
    /\ processes = << >>
    /\ closed = FALSE
    /\ message = NoMessage
    /\ event = NoEvent
    /\ effects = <<postMessage(RequestPort, "")>>
    /\ thrown = FALSE

\* The controllers of w that anything refers to.  A controller whose fork
\* threw has no listener bound and, unless the registry holds it, nothing
\* refers to it: it is garbage.
Reachable(w) ==
    LET n == Len(w.processes)
    IN  IF n > 0 /\ w.processes[n].child = "undefined"
           /\ \A k \in DOMAIN w.map : w.map[k] # n
        THEN SubSeq(w.processes, 1, n - 1)
        ELSE w.processes

\* The handler's result becomes the state.
Commit(w) ==
    /\ mapConfigurationToProcess' = w.map
    /\ processes' = Reachable(w)
    /\ closed' = w.closed
    /\ effects' = w.effects
    /\ thrown' = w.thrown

\* onmessage: an inbound control message is handled.
NotifyMessage(id, configuration, hasPort, hasEnvironment, forkThrows) ==
    /\ (id = ReceivePort /\ hasPort /\ hasEnvironment) => Len(processes) < MaxProcesses
    /\ LET w == notifyMessage([World EXCEPT !.configuration = configuration],
                              id, hasPort, hasEnvironment, forkThrows)
       IN  /\ Commit(w)
           /\ message' = [id |-> id, sent |-> configuration, configuration |-> w.configuration,
                          hasPort |-> hasPort, hasEnvironment |-> hasEnvironment]
    /\ event' = Event("message", 0, "", "", "", <<>>, forkThrows)

\* The child of controller p emits 'error'.
ChildError(p) ==
    /\ processes[p].child = "forked"
    /\ Commit(onError(World, p))
    /\ event' = Event("error", p, "", "", "", <<>>, FALSE)
    /\ message' = NoMessage

\* The child of controller p emits 'exit'; its channel is closed with it.
ChildExit(p, code, signal) ==
    /\ processes[p].child = "forked"
    /\ ~processes[p].exited
    /\ LET w == onExit(World, p, code, signal)
       IN  Commit([w EXCEPT !.processes[p].exited = TRUE, !.processes[p].connected = FALSE])
    /\ event' = Event("exit", p, code, signal, "", <<>>, FALSE)
    /\ message' = NoMessage

\* The channel to the child of controller p closes (child.connected becomes false).
ChildDisconnect(p) ==
    /\ processes[p].child = "forked"
    /\ processes[p].connected
    /\ Commit([World EXCEPT !.processes[p].connected = FALSE])
    /\ event' = Event("disconnect", p, "", "", "", <<>>, FALSE)
    /\ message' = NoMessage

\* The child of controller p emits 'message'.
ChildMessage(p, msg) ==
    /\ processes[p].child = "forked"
    /\ processes[p].connected
    /\ Commit(onRawMessage(World, p, msg))
    /\ event' = Event("child.message", p, "", "", msg.type, msg.text, FALSE)
    /\ message' = NoMessage

\* A buffer arrives on the port of controller p.
PortMessage(p, buffer) ==
    /\ processes[p].child = "forked"
    /\ Commit(send(World, p, buffer))
    /\ event' = Event("port.message", p, "", "", "", buffer, FALSE)
    /\ message' = NoMessage

Next ==
    \/ \E configuration \in SentConfigurations, forkThrows \in BOOLEAN :
            NotifyMessage(ReceivePort, configuration, TRUE, TRUE, forkThrows)
    \/ \E configuration \in SentConfigurations, hasPort \in BOOLEAN, hasEnvironment \in BOOLEAN :
            /\ ~(hasPort /\ hasEnvironment)
            /\ NotifyMessage(ReceivePort, configuration, hasPort, hasEnvironment, FALSE)
    \/ \E id \in InboundIds \ {ReceivePort}, configuration \in SentConfigurations :
            NotifyMessage(id, configuration, FALSE, FALSE, FALSE)
    \/ \E p \in DOMAIN processes : ChildError(p)
    \/ \E p \in DOMAIN processes, x \in Exits : ChildExit(p, x[1], x[2])
    \/ \E p \in DOMAIN processes : ChildDisconnect(p)
    \/ \E p \in DOMAIN processes, msg \in ChildMessages : ChildMessage(p, msg)
    \/ \E p \in DOMAIN processes, buffer \in Buffers : PortMessage(p, buffer)

Spec == Init /\ [][Next]_vars

-----------------------------------------------------------------------------
(* Vocabulary of the properties *)

\* Controller i of the controllers ps was spawned and is not disposed.
LiveIn(ps, i) == ps[i].child = "forked" /\ ~ps[i].isDisposed

Live(i) == LiveIn(processes, i)

\* The registry key of the configuration of controller i of ps.
FingerprintIn(ps, i) == hash(ps[i].configuration).result

Fingerprint(i) == FingerprintIn(processes, i)

\* The places in the effects e of a handler where it posted a message with this id.
Posts(e, id) == {i \in DOMAIN e : e[i].kind = "postMessage" /\ e[i].id = id}

\* The places in e where the handler did this to controller p.
Acts(e, kind, p) == {i \in DOMAIN e : e[i].kind = kind /\ e[i].proc = p}

\* The places in e of this kind, whatever the controller.
Kinds(e, kind) == {i \in DOMAIN e : e[i].kind = kind}

\* The diagnostics among the effects e.
Diagnostics(e) == Posts(e, WorkerTrace) \cup Posts(e, WorkerWarn) \cup Posts(e, WorkerError)

\* The relay actions among the effects e.
Relays(e) == Kinds(e, "port.postMessage") \cup Kinds(e, "child.send")

\* The message m is a ReceivePort handoff with its endpoint and its environment.
Handoff(m) == m.id = ReceivePort /\ m.hasPort /\ m.hasEnvironment

\* Two configurations that differ in reply.nonce at most.
SameButNonce(c1, c2) ==
    /\ c1.process = c2.process
    /\ c1.reply.windowId = c2.reply.windowId
    /\ c1.reply.channel = c2.reply.channel

-----------------------------------------------------------------------------
(* C1 *)

\* C1: in every reachable state there is at most one live (spawned and not
\* disposed) controller per configuration fingerprint.
C1_OneLivePerFingerprint ==
    \A i, j \in DOMAIN processes :
        (Live(i) /\ Live(j) /\ Fingerprint(i) = Fingerprint(j)) => i = j

\* A handoff has replaced a controller of the same fingerprint: the old one
\* is disposed, the new one is live.
C1_Witness ==
    \E i, j \in DOMAIN processes :
        /\ i # j
        /\ Fingerprint(i) = Fingerprint(j)
        /\ processes[i].child = "forked" /\ processes[i].isDisposed
        /\ Live(j)

-----------------------------------------------------------------------------
(* C2 *)

\* What C2 asks of a step that handles a handoff for a fingerprint whose
\* registry entry is the controller `old`: old is disposed and its child is
\* sent kill, before any fork and before any registration of that handler;
\* the handler forks at most one child; and when the fork does not throw,
\* it forks exactly one, the new controller, which is then the one entry of
\* the fingerprint.
Replaced(key, old) ==
    /\ processes'[old].isDisposed /\ processes'[old].killed
    /\ Cardinality(Acts(effects', "kill", old)) = 1
    /\ \A k \in Acts(effects', "kill", old) :
          /\ \A d \in Acts(effects', "isDisposed", old) : d < k
          /\ \A f \in Kinds(effects', "fork") : k < f
          /\ \A r \in Kinds(effects', "set") : k < r
    /\ Cardinality(Kinds(effects', "fork")) <= 1
    /\ ~event'.forkThrows =>
          /\ Cardinality(Kinds(effects', "fork")) = 1
          /\ Len(processes') = Len(processes) + 1
          /\ Acts(effects', "fork", Len(processes')) # {}
          /\ key \in DOMAIN mapConfigurationToProcess'
          /\ mapConfigurationToProcess'[key] = Len(processes')
          /\ LiveIn(processes', Len(processes'))
          /\ \A i \in DOMAIN processes' :
                (LiveIn(processes', i) /\ FingerprintIn(processes', i) = key)
                    => i = Len(processes')

C2_Step ==
    (Handoff(message') /\ hash(message'.sent).result \in DOMAIN mapConfigurationToProcess)
        => Replaced(hash(message'.sent).result,
                    mapConfigurationToProcess[hash(message'.sent).result])

-----------------------------------------------------------------------------
(* C3 *)

\* C3: when the fork throws during a handoff, nothing escapes notifyMessage,
\* exactly one Error diagnostic and no WorkerReady is posted, and the
\* registry has no entry for the fingerprint (and no entry anywhere for a
\* controller without a child), so the slot is free for a later handoff.
C3_SpawnFailureLeavesSlotEmpty ==
    (Handoff(message) /\ event.forkThrows) =>
        /\ ~thrown
        /\ Cardinality(Posts(effects, WorkerError)) = 1
        /\ Posts(effects, WorkerReady) = {}
        /\ hash(message.sent).result \notin DOMAIN mapConfigurationToProcess
        /\ \A k \in DOMAIN mapConfigurationToProcess :
              processes[mapConfigurationToProcess[k]].child = "forked"

\* The fork of a handoff threw after the handler had terminated the
\* controller registered for the fingerprint.
C3_Witness ==
    /\ Handoff(message) /\ event.forkThrows
    /\ Kinds(effects, "delete") # {}
    /\ Posts(effects, WorkerError) # {}

-----------------------------------------------------------------------------
(* C4 *)

\* C4: a callback of a disposed controller (child message, port message,
\* child exit, child error) produces no diagnostic and no relay action.
C4_SilentAfterDispose ==
    (event.kind \in {"child.message", "port.message", "exit", "error"}
        /\ processes[event.proc].isDisposed)
    => (Diagnostics(effects) = {} /\ Relays(effects) = {})

-----------------------------------------------------------------------------
(* C5 *)

\* C5: when a Terminate message makes the runtime call close(), no other
\* registered controller is left undisposed: the terminated worker was the
\* only one registered.
C5_CloseOnlyWhenLast ==
    (message.id = WorkerTerminate /\ Kinds(effects, "close") # {})
    => \A k \in DOMAIN mapConfigurationToProcess :
          processes[mapConfigurationToProcess[k]].isDisposed

-----------------------------------------------------------------------------
(* C6 *)

\* The Error diagnostic of a crash, with the code and the signal in it.
Crash(code, signal) ==
    Effect("postMessage", WorkerError, "Child process crashed", 0, code, signal, <<>>)

\* C6: the exit of the child of a controller that is not disposed posts
\* exactly one Error diagnostic, holding the code and the signal, when the
\* code is not 0 and the signal is not SIGTERM, and nothing when the code is
\* 0 or the signal is SIGTERM; exit code 1 without a signal posts one Error.
C6_ExitDiagnostic ==
    (event.kind = "exit" /\ ~processes[event.proc].isDisposed) =>
        /\ (event.code # "0" /\ event.signal # "SIGTERM")
              => effects = <<Crash(event.code, event.signal)>>
        /\ (event.code = "0" \/ event.signal = "SIGTERM") => effects = << >>
        /\ (event.code = "1" /\ event.signal = "null")
              => Cardinality(Posts(effects, WorkerError)) = 1

\* The child of a controller that is not disposed exited with code 1 and no
\* signal, and one Error was posted.
C6_Witness ==
    /\ event.kind = "exit" /\ event.code = "1" /\ event.signal = "null"
    /\ ~processes[event.proc].isDisposed
    /\ Cardinality(Posts(effects, WorkerError)) = 1

-----------------------------------------------------------------------------
(* C7 *)

C7_Step ==
    (event'.kind = "port.message"
        /\ ~processes[event'.proc].isDisposed /\ ~processes[event'.proc].connected)
    => /\ effects' = <<LoggerWarn("Unable to deliver message to disconnected child")>>
       /\ Relays(effects') = {}
       /\ ~thrown'
       /\ processes' = processes
       /\ mapConfigurationToProcess' = mapConfigurationToProcess

\* C7: a buffer that arrives on the port of a controller that is not
\* disposed while its child is not connected is dropped: it is not sent to
\* the child, nothing of the program's state keeps it for later, exactly one
\* Warn diagnostic is posted and nothing is thrown.
C7_DisconnectedSendDropped == [][C7_Step]_vars

\* A buffer arrived for a controller that is not disposed and whose child is
\* not connected, and a Warn was posted.
C7_Witness ==
    /\ event.kind = "port.message"
    /\ ~processes[event.proc].isDisposed /\ ~processes[event.proc].connected
    /\ Cardinality(Posts(effects, WorkerWarn)) = 1

-----------------------------------------------------------------------------
(* C8 *)

C8_Step ==
    (message'.id = WorkerTerminate
        /\ hash(message'.sent).result \notin DOMAIN mapConfigurationToProcess)
    => /\ mapConfigurationToProcess' = mapConfigurationToProcess
       /\ processes' = processes
       /\ closed' = closed
       /\ effects' = << >>
       /\ ~thrown'

\* C8: a Terminate message for a fingerprint that has no registered
\* controller changes nothing: the registry and the controllers are as
\* before, no child is killed, close() is not called and no diagnostic of
\* any kind is posted.
C8_TerminateUnknownIsNoOp == [][C8_Step]_vars

\* A Terminate for a fingerprint without an entry was handled while another
\* fingerprint had a live registered controller.
C8_Witness ==
    /\ message.id = WorkerTerminate
    /\ effects = << >>
    /\ hash(message.sent).result \notin DOMAIN mapConfigurationToProcess
    /\ \E k \in DOMAIN mapConfigurationToProcess : Live(mapConfigurationToProcess[k])

-----------------------------------------------------------------------------
(* C9 *)

\* C9: two configurations that differ in reply.nonce only have the same
\* fingerprint; so a handoff or a Terminate addresses the registry slot of
\* every controller whose configuration differs from the message's in the
\* nonce at most: after it, such a controller is disposed unless it is the
\* one the handoff has just registered.
C9_NonceNotInFingerprint ==
    /\ \A c1, c2 \in SentConfigurations :
          SameButNonce(c1, c2) => hash(c1).result = hash(c2).result
    /\ (Handoff(message) \/ message.id = WorkerTerminate) =>
          \A i \in DOMAIN processes :
              (SameButNonce(processes[i].configuration, message.sent) /\ Live(i))
              => /\ Handoff(message)
                 /\ hash(message.sent).result \in DOMAIN mapConfigurationToProcess
                 /\ mapConfigurationToProcess[hash(message.sent).result] = i
                 /\ Acts(effects, "set", i) # {}

\* A Terminate whose nonce is "b" has disposed a registered controller, and
\* a configuration with another nonce has the same fingerprint.
C9_Witness ==
    /\ message.id = WorkerTerminate
    /\ message.sent.reply.nonce = "b"
    /\ Kinds(effects, "kill") # {}
    /\ \E c \in SentConfigurations :
          /\ c # message.sent
          /\ hash(c).result = hash(message.sent).result

-----------------------------------------------------------------------------
(* C10 *)

\* C10: computing the fingerprint leaves the caller's configuration as it
\* was: after a handoff or a Terminate, the configuration of the message,
\* reply.nonce included, is the one that was sent.
C10_HashLeavesConfiguration ==
    (Handoff(message) \/ message.id = WorkerTerminate)
    => /\ message.configuration = message.sent
       /\ hash(message.sent).configuration = message.sent

-----------------------------------------------------------------------------
(* C11 *)

\* The message m is a ReceivePort without its endpoint or without its environment.
Malformed(m) == m.id = ReceivePort /\ ~(m.hasPort /\ m.hasEnvironment)

C11_Step ==
    Malformed(message')
    => /\ Cardinality(Posts(effects', WorkerWarn)) = 1
       /\ Kinds(effects', "fork") = {}
       /\ Posts(effects', WorkerReady) = {}
       /\ mapConfigurationToProcess' = mapConfigurationToProcess

\* C11: a ReceivePort message without a transferred endpoint or without the
\* environment is ignored after a warning: its handler posts exactly one
\* Warn diagnostic, forks no child, posts no WorkerReady and leaves the
\* registry as it was.
C11_MalformedHandoffWarns == [][C11_Step]_vars

-----------------------------------------------------------------------------
(* C12 *)

\* The state with one more controller, constructed and never spawned.
WithUnspawned == constructed([World EXCEPT !.configuration = NoConfiguration])

\* dispose() of controller p in the state w, and dispose() again after it:
\* the flag is set before the child is sent kill, every call leaves the
\* controller disposed, posts nothing and throws nothing, and the second
\* call leaves the controllers as the first one left them.
DisposeTwice(w, p) ==
    LET once == dispose(w, p)
        twice == dispose([once EXCEPT !.effects = << >>], p)
    IN  /\ once.processes[p].isDisposed /\ twice.processes[p].isDisposed
        /\ \A d \in Acts(once.effects, "isDisposed", p) :
              \A k \in Acts(once.effects, "kill", p) : d < k
        /\ Acts(once.effects, "isDisposed", p) # {}
        /\ (w.processes[p].child = "forked") = (Acts(once.effects, "kill", p) # {})
        /\ Diagnostics(once.effects) = {} /\ Diagnostics(twice.effects) = {}
        /\ ~once.thrown /\ ~twice.thrown
        /\ twice.processes = once.processes
        /\ twice.map = once.map /\ once.map = w.map

\* C12: dispose() of a controller can be called any number of times: on
\* every controller of every reachable state, disposed already or not, and on
\* a controller that was never spawned, it sets the flag before it sends
\* kill, and calling it again leaves the controller disposed, posts no
\* diagnostic and throws nothing.
C12_DisposeIdempotent ==
    /\ \A p \in DOMAIN processes : DisposeTwice(World, p)
    /\ DisposeTwice(WithUnspawned, Len(processes) + 1)

\* A handler has disposed a controller, flag first and kill second, and the
\* controller is still there for a further call.
C12_Witness ==
    \E p \in DOMAIN processes :
        /\ processes[p].isDisposed /\ processes[p].killed
        /\ \E d \in Acts(effects, "isDisposed", p) :
              \E k \in Acts(effects, "kill", p) : d < k

-----------------------------------------------------------------------------
(* C13 *)

C13_Step ==
    (message'.id = WorkerTerminate
        /\ hash(message'.sent).result \in DOMAIN mapConfigurationToProcess)
    => LET key == hash(message'.sent).result
           old == mapConfigurationToProcess[key]
       IN  /\ processes'[old].isDisposed /\ processes'[old].killed
           /\ Cardinality(Acts(effects', "kill", old)) = 1
           /\ key \notin DOMAIN mapConfigurationToProcess'
           /\ DOMAIN mapConfigurationToProcess' = DOMAIN mapConfigurationToProcess \ {key}
           /\ \A k \in DOMAIN mapConfigurationToProcess' :
                 mapConfigurationToProcess'[k] = mapConfigurationToProcess[k]
           /\ Len(processes') = Len(processes)
           /\ \A i \in DOMAIN processes : i # old => processes'[i] = processes[i]
           /\ \A i \in DOMAIN effects' :
                 effects'[i].kind \in {"kill", "isDisposed", "delete"} => effects'[i].proc = old

\* C13: a Terminate message for a fingerprint that has a registered
\* controller disposes that controller, sends kill to its child and removes
\* the entry of that fingerprint; the entries of the other fingerprints and
\* their controllers are as before.
C13_TerminateRemovesOnlyItsEntry == [][C13_Step]_vars

\* A Terminate has disposed the controller of its fingerprint while the
\* controller of another fingerprint stays registered and live.
C13_Witness ==
    /\ message.id = WorkerTerminate
    /\ Kinds(effects, "kill") # {}
    /\ \E k \in DOMAIN mapConfigurationToProcess : Live(mapConfigurationToProcess[k])

-----------------------------------------------------------------------------
(* C14 *)

\* The last handler handled a handoff whose fork did not throw.
Spawned == Handoff(message) /\ ~event.forkThrows

\* C14: the handler of a handoff (endpoint and environment present) whose
\* fork succeeds posts exactly one WorkerReady, after it has stored the new
\* controller in the registry; the handler of a handoff whose fork threw,
\* and the handler of anything else, posts no WorkerReady.
C14_ReadyOnceAfterRegistration ==
    /\ Spawned =>
          /\ Cardinality(Posts(effects, WorkerReady)) = 1
          /\ hash(message.sent).result \in DOMAIN mapConfigurationToProcess
          /\ Acts(effects, "set", mapConfigurationToProcess[hash(message.sent).result]) # {}
          /\ Acts(effects, "fork", mapConfigurationToProcess[hash(message.sent).result]) # {}
          /\ \A r \in Posts(effects, WorkerReady) :
                \A x \in Kinds(effects, "set") : x < r
    /\ ~Spawned => Posts(effects, WorkerReady) = {}

\* A handoff has forked a child, stored its controller and posted WorkerReady.
C14_Witness ==
    /\ Spawned
    /\ Posts(effects, WorkerReady) # {}
    /\ Kinds(effects, "set") # {}

-----------------------------------------------------------------------------
(* C15 *)

\* C15: RequestPort is what the runtime posts when it is created, before any
\* inbound message is handled, and nothing else is posted then; no handler of
\* an inbound message or of an event of a child or a port posts RequestPort,
\* so it is posted once in the lifetime of the runtime.
C15_RequestPortOnceAtStart ==
    /\ event.kind = "create" =>
          /\ effects = <<postMessage(RequestPort, "")>>
          /\ message = NoMessage /\ processes = << >> /\ mapConfigurationToProcess = << >>
    /\ event.kind # "create" => Posts(effects, RequestPort) = {}

\* Two handoffs and then a termination were handled after the start.
C15_Witness ==
    /\ Len(processes) = 2
    /\ message.id = WorkerTerminate
    /\ Kinds(effects, "kill") # {}
    /\ Posts(effects, RequestPort) = {}

-----------------------------------------------------------------------------
(* C16 *)

C16_Step ==
    (event'.kind = "message" /\ message'.id \notin {ReceivePort, WorkerTerminate})
    => /\ Len(effects') = 1
       /\ Cardinality(Posts(effects', WorkerWarn)) = 1
       /\ mapConfigurationToProcess' = mapConfigurationToProcess
       /\ processes' = processes
       /\ closed' = closed
       /\ ~thrown'

\* C16: an inbound control message whose kind is neither ReceivePort nor
\* Terminate posts exactly one Warn diagnostic and does nothing else: the
\* registry and every controller, with its child, are as before and close()
\* is not called.
C16_UnknownKindWarnsOnly == [][C16_Step]_vars

\* A message of an unknown kind was handled while a controller was
\* registered and live.
C16_Witness ==
    /\ event.kind = "message"
    /\ message.id \notin {ReceivePort, WorkerTerminate}
    /\ Cardinality(Posts(effects, WorkerWarn)) = 1
    /\ \E k \in DOMAIN mapConfigurationToProcess : Live(mapConfigurationToProcess[k])

-----------------------------------------------------------------------------
(* C17 *)

\* The relay of controller p forwards in the state w: what the child emits
\* next goes to the port, and, the child being connected, what the port
\* receives next goes to the child.
Forwards(w, p) ==
    /\ \A b \in Buffers :
          onRawMessage(w, p, [type |-> "data", text |-> toBase64(b)]).effects
              = <<Relay("port.postMessage", p, b)>>
    /\ w.processes[p].connected =>
          \A b \in Buffers : send(w, p, b).effects = <<Relay("child.send", p, toBase64(b))>>

C17_Step ==
    (event'.kind = "error" /\ ~processes[event'.proc].isDisposed)
    => /\ effects' = <<LoggerWarn("Error from child process")>>
       /\ ~thrown'
       /\ processes' = processes
       /\ ~processes'[event'.proc].isDisposed /\ ~processes'[event'.proc].killed
       /\ mapConfigurationToProcess' = mapConfigurationToProcess
       /\ closed' = closed
       /\ Forwards(World, event.proc)'

\* C17: an 'error' event of the child of a controller that is not disposed
\* posts exactly one Warn diagnostic and is not fatal: the controller stays
\* not disposed, its registry entry stays, its child is not sent kill, and
\* the relay forwards the next message of either direction.
C17_ChildErrorNotFatal == [][C17_Step]_vars

\* The child of a registered, live and connected controller has emitted
\* 'error' and one Warn was posted.
C17_Witness ==
    /\ event.kind = "error"
    /\ Live(event.proc) /\ processes[event.proc].connected
    /\ \E k \in DOMAIN mapConfigurationToProcess : mapConfigurationToProcess[k] = event.proc
    /\ Cardinality(Posts(effects, WorkerWarn)) = 1

-----------------------------------------------------------------------------
(* C18 *)

\* C18: every handler runs to completion before the next event is taken, so
\* a relay direction is FIFO and loss-free when each emission is forwarded,
\* once and as it was, by the handler of that very emission, and nothing
\* else is ever forwarded.  For a controller that is not disposed: a child
\* message that is not a console log is decoded and posted to the port of
\* that controller, exactly once, by its own handler; a console log is
\* never posted to the port; a buffer received on the port while the child
\* is connected is encoded and sent to that child, exactly once, by its own
\* handler, and decodes to the buffer received; no handler of anything else
\* relays.
C18_RelayFifoLossFree ==
    /\ (event.kind = "child.message" /\ ~processes[event.proc].isDisposed) =>
          IF event.type = "__$console"
          THEN Relays(effects) = {}
          ELSE \E b \in Buffers :
                  /\ event.data = toBase64(b)
                  /\ effects = <<Relay("port.postMessage", event.proc, b)>>
    /\ (event.kind = "port.message" /\ ~processes[event.proc].isDisposed
            /\ processes[event.proc].connected) =>
          /\ effects = <<Relay("child.send", event.proc, toBase64(event.data))>>
          /\ \A i \in Relays(effects) : fromBase64(effects[i].data) = event.data
    /\ event.kind \notin {"child.message", "port.message"} => Relays(effects) = {}

\* The two-byte buffer was relayed from the child to the port of a live controller.
C18_Witness ==
    /\ event.kind = "child.message"
    /\ ~processes[event.proc].isDisposed
    /\ effects = <<Relay("port.postMessage", event.proc, <<255, 1>>)>>

-----------------------------------------------------------------------------
(* C19 *)

\* The places in the effects e where a child was forked or a controller registered.
Starts(e) == Kinds(e, "fork") \cup Kinds(e, "set")

C19_Step ==
    /\ closed => Starts(effects') = {}
    /\ \A c \in Kinds(effects', "close") : \A x \in Starts(effects') : x < c
    /\ Handoff(message') => Kinds(effects', "close") = {}

\* C19: once close() has been called, no child is forked and no controller
\* is registered, neither later in the same handler nor by a later handler;
\* and the handler of a handoff, also of one that replaces the controller
\* of its fingerprint, does not call close().
C19_NoSpawnAfterClose == [][C19_Step]_vars

-----------------------------------------------------------------------------
(* C20 *)

\* C20: every child that was forked and has not been sent kill belongs to
\* the controller that is the registry entry of its fingerprint, and every
\* registry entry is a controller that was spawned, is not disposed, and is
\* stored under its own fingerprint.
C20_NoOrphanChild ==
    /\ \A i \in DOMAIN processes :
          (processes[i].child = "forked" /\ ~processes[i].killed) =>
              /\ Fingerprint(i) \in DOMAIN mapConfigurationToProcess
              /\ mapConfigurationToProcess[Fingerprint(i)] = i
    /\ \A k \in DOMAIN mapConfigurationToProcess :
          /\ mapConfigurationToProcess[k] \in DOMAIN processes
          /\ Live(mapConfigurationToProcess[k])
          /\ Fingerprint(mapConfigurationToProcess[k]) = k

\* A controller was replaced: its child was sent kill and it is no entry of
\* the registry, while the child of its successor runs and is the entry.
C20_Witness ==
    \E i, j \in DOMAIN processes :
        /\ i # j /\ Fingerprint(i) = Fingerprint(j)
        /\ processes[i].killed
        /\ \A k \in DOMAIN mapConfigurationToProcess : mapConfigurationToProcess[k] # i
        /\ Live(j) /\ ~processes[j].killed
        /\ mapConfigurationToProcess[Fingerprint(j)] = j

====
